---------------------------- MODULE Spec2Model ----------------------------
(***************************************************************************)
(* A model of travelapp.py: the Streamlit student travel planner.          *)
(*                                                                         *)
(* A text is a sequence of atoms.  An atom is one character where the code *)
(* looks at characters (backtick, the letters of "json", whitespace, the   *)
(* JSON punctuation, digits) and one word (a run of ordinary letters) where *)
(* it does not.  A JSON value is a record [t, n, s, items]; an object or an *)
(* array keeps its members in items as a sequence of [k, v].               *)
(***************************************************************************)
EXTENDS Integers, Sequences, FiniteSets, TLC

\* ------------------------------------------------------------------ bounds
MaxDocLen == 3
MaxRuns == 2

\* -------------------------------------------------------------------- atoms
\* the backtick character (SANY does not read a backtick inside a string)
BT == "bt"
SP == " "
NL == "\n"
FF == "\f"
DQ == "\""

\* str.strip() and the regex class \s, on the atoms of the model
IsSpace(c) == c \in {SP, NL, FF}

\* the whitespace json.loads skips between tokens (a form feed is not one)
IsJsonWs(c) == c \in {SP, NL}

Digits == {"0", "1", "2", "3", "4", "5", "6", "7", "8", "9"}

DigitVal(c) ==
  CASE c = "0" -> 0 [] c = "1" -> 1 [] c = "2" -> 2 [] c = "3" -> 3
    [] c = "4" -> 4 [] c = "5" -> 5 [] c = "6" -> 6 [] c = "7" -> 7
    [] c = "8" -> 8 [] OTHER -> 9

\* ------------------------------------------------------------- JSON values
VNone == [t |-> "null", n |-> 0, s |-> <<>>, items |-> <<>>]
VBool(b) == [t |-> IF b THEN "true" ELSE "false", n |-> 0, s |-> <<>>, items |-> <<>>]
VNum(k) == [t |-> "num", n |-> k, s |-> <<>>, items |-> <<>>]
VStr(x) == [t |-> "str", n |-> 0, s |-> x, items |-> <<>>]
VArr(xs) == [t |-> "arr", n |-> 0, s |-> <<>>, items |-> xs]
VObj(kvs) == [t |-> "obj", n |-> 0, s |-> <<>>, items |-> kvs]
Member(key, val) == [k |-> key, v |-> val]
Elem(val) == [k |-> <<>>, v |-> val]

\* Python truth value of a parsed JSON value
Truthy(v) ==
  CASE v.t = "null" -> FALSE
    [] v.t = "false" -> FALSE
    [] v.t = "true" -> TRUE
    [] v.t = "num" -> v.n # 0
    [] v.t = "str" -> v.s # <<>>
    [] OTHER -> v.items # <<>>

\* dict[key] = val: a repeated key keeps its place and takes the new value
DictSet(kvs, key, val) ==
  IF \E i \in 1..Len(kvs) : kvs[i].k = key
  THEN [i \in 1..Len(kvs) |-> IF kvs[i].k = key THEN Member(key, val) ELSE kvs[i]]
  ELSE Append(kvs, Member(key, val))

\* ---------------------------------------------------------------- json.loads
Fail == [ok |-> FALSE, v |-> VNone, i |-> 0]
Good(val, next) == [ok |-> TRUE, v |-> val, i |-> next]

RECURSIVE SkipWs(_, _)
SkipWs(s, i) == IF i <= Len(s) /\ IsJsonWs(s[i]) THEN SkipWs(s, i + 1) ELSE i

\* the end of the run of digits that starts at i (i itself when there is none)
RECURSIVE DigitsEnd(_, _)
DigitsEnd(s, i) == IF i <= Len(s) /\ s[i] \in Digits THEN DigitsEnd(s, i + 1) ELSE i

RECURSIVE DecimalValue(_, _, _)
DecimalValue(s, i, j) ==
  IF j <= i THEN 0 ELSE 10 * DecimalValue(s, i, j - 1) + DigitVal(s[j - 1])

\* NUMBER_RE: 0 | [1-9][0-9]*  (a leading 0 is a number of its own)
ScanNumber(s, i) ==
  IF s[i] = "0" THEN Good(VNum(0), i + 1)
  ELSE LET j == DigitsEnd(s, i) IN Good(VNum(DecimalValue(s, i, j)), j)

\* the characters below U+0020, which a JSON string may not hold
IsControl(c) == c \in {NL, FF}

\* the index of the closing quote of the string opened before i, 0 when the
\* string is unterminated or holds a control character (strict mode)
RECURSIVE StringEnd(_, _)
StringEnd(s, i) ==
  IF i > Len(s) THEN 0
  ELSE IF s[i] = DQ THEN i
  ELSE IF IsControl(s[i]) THEN 0
  ELSE StringEnd(s, i + 1)

ScanString(s, i) ==
  LET j == StringEnd(s, i + 1)
  IN IF j = 0 THEN Fail ELSE Good(VStr(SubSeq(s, i + 1, j - 1)), j + 1)

RECURSIVE ScanOnce(_, _)
RECURSIVE ScanArrayRest(_, _, _)
RECURSIVE ScanObjectRest(_, _, _)

\* after a '[' and the elements in acc: a value, then ',' or ']'
ScanArrayRest(s, i, acc) ==
  LET r == ScanOnce(s, i)
  IN IF ~r.ok THEN Fail
     ELSE LET j == SkipWs(s, r.i)
              acc2 == Append(acc, Elem(r.v))
          IN IF j > Len(s) THEN Fail
             ELSE IF s[j] = "]" THEN Good(VArr(acc2), j + 1)
             ELSE IF s[j] = "," THEN ScanArrayRest(s, SkipWs(s, j + 1), acc2)
             ELSE Fail

\* after a '{' and the members in acc: "key" : value, then ',' or '}'
ScanObjectRest(s, i, acc) ==
  IF i > Len(s) \/ s[i] # DQ THEN Fail
  ELSE LET key == ScanString(s, i)
       IN IF ~key.ok THEN Fail
          ELSE LET c == SkipWs(s, key.i)
               IN IF c > Len(s) \/ s[c] # ":" THEN Fail
                  ELSE LET r == ScanOnce(s, SkipWs(s, c + 1))
                       IN IF ~r.ok THEN Fail
                          ELSE LET j == SkipWs(s, r.i)
                                   acc2 == DictSet(acc, key.v.s, r.v)
                               IN IF j > Len(s) THEN Fail
                                  ELSE IF s[j] = "}" THEN Good(VObj(acc2), j + 1)
                                  ELSE IF s[j] = ","
                                  THEN ScanObjectRest(s, SkipWs(s, j + 1), acc2)
                                  ELSE Fail

\* scanner.scan_once: one JSON value starting exactly at i
ScanOnce(s, i) ==
  IF i > Len(s) THEN Fail
  ELSE IF s[i] = DQ THEN ScanString(s, i)
  ELSE IF s[i] = "{"
  THEN LET j == SkipWs(s, i + 1)
       IN IF j <= Len(s) /\ s[j] = "}" THEN Good(VObj(<<>>), j + 1)
          ELSE ScanObjectRest(s, j, <<>>)
  ELSE IF s[i] = "["
  THEN LET j == SkipWs(s, i + 1)
       IN IF j <= Len(s) /\ s[j] = "]" THEN Good(VArr(<<>>), j + 1)
          ELSE ScanArrayRest(s, j, <<>>)
  ELSE IF s[i] = "null" THEN Good(VNone, i + 1)
  ELSE IF s[i] = "true" THEN Good(VBool(TRUE), i + 1)
  ELSE IF s[i] = "false" THEN Good(VBool(FALSE), i + 1)
  ELSE IF s[i] \in Digits THEN ScanNumber(s, i)
  ELSE Fail

\* json.loads(s): ok = FALSE stands for json.JSONDecodeError
JsonLoads(s) ==
  LET r == ScanOnce(s, SkipWs(s, 1))
  IN IF ~r.ok THEN Fail
     ELSE IF SkipWs(s, r.i) # Len(s) + 1 THEN Fail
     ELSE r

\* ------------------------------------------------------- parse_gemini_json
RECURSIVE LStrip(_)
LStrip(s) == IF s # <<>> /\ IsSpace(Head(s)) THEN LStrip(Tail(s)) ELSE s

RECURSIVE RStrip(_)
RStrip(s) ==
  IF s # <<>> /\ IsSpace(s[Len(s)]) THEN RStrip(SubSeq(s, 1, Len(s) - 1)) ELSE s

\* response_text.strip()
Strip(s) == RStrip(LStrip(s))

\* flags=re.IGNORECASE on the letters of the pattern
LowerAtom(c) ==
  CASE c = "J" -> "j" [] c = "S" -> "s" [] c = "O" -> "o" [] c = "N" -> "n"
    [] OTHER -> c

FenceWord == <<BT, BT, BT, "j", "s", "o", "n">>

RECURSIVE SpacesEnd(_, _)
SpacesEnd(s, i) == IF i <= Len(s) /\ IsSpace(s[i]) THEN SpacesEnd(s, i + 1) ELSE i

\* ^(3 backticks)json\s* : the number of atoms the first alternative takes at the start
LeadMatchNoCase(s) ==
  IF Len(s) >= Len(FenceWord) /\ SubSeq(s, 1, Len(FenceWord)) = FenceWord
  THEN SpacesEnd(s, Len(FenceWord) + 1) - 1
  ELSE 0

LeadMatch(s) ==
  IF Len(s) >= Len(FenceWord)
     /\ [i \in 1..Len(FenceWord) |-> LowerAtom(s[i])] = FenceWord
  THEN SpacesEnd(s, Len(FenceWord) + 1) - 1
  ELSE 0

\* the start of the run of whitespace that ends just before i, not below lo
RECURSIVE SpacesStart(_, _, _)
SpacesStart(s, i, lo) ==
  IF i > lo /\ IsSpace(s[i - 1]) THEN SpacesStart(s, i - 1, lo) ELSE i

\* \s*(3 backticks)$ : where the second alternative matches at or after from, 0 if nowhere
TailMatch(s, from) ==
  IF Len(s) - 2 >= from /\ SubSeq(s, Len(s) - 2, Len(s)) = <<BT, BT, BT>>
  THEN SpacesStart(s, Len(s) - 2, from)
  ELSE 0

\* re.sub(fence pattern, '', s, flags=re.IGNORECASE), line 38
FenceSub(s) ==
  LET lead == LeadMatch(s)
      tail == TailMatch(s, lead + 1)
  IN SubSeq(s, lead + 1, IF tail = 0 THEN Len(s) ELSE tail - 1)

ParseDiag(raw) == [kind |-> "error", about |-> "parse", text |-> raw]

\* a variant that reports the failure of the strict attempt as well
ParseGeminiJsonEager(response_text) ==
  LET first == JsonLoads(response_text)
      second == JsonLoads(FenceSub(Strip(response_text)))
  IN IF first.ok THEN [ret |-> first.v, ok |-> TRUE, diags |-> <<>>, attempts |-> 1]
     ELSE IF second.ok
     THEN [ret |-> second.v, ok |-> TRUE, diags |-> <<ParseDiag(response_text)>>,
           attempts |-> 2]
     ELSE [ret |-> VNone, ok |-> FALSE,
           diags |-> <<ParseDiag(response_text), ParseDiag(response_text)>>,
           attempts |-> 2]

\* parse_gemini_json(response_text) for a text: what it returns, the st.error
\* messages it emits and the json.loads calls it makes
ParseGeminiJson(response_text) ==
  LET first == JsonLoads(response_text)
      second == JsonLoads(FenceSub(Strip(response_text)))
  IN IF first.ok THEN [ret |-> first.v, ok |-> TRUE, diags |-> <<>>, attempts |-> 1]
     ELSE IF second.ok
     THEN [ret |-> second.v, ok |-> TRUE, diags |-> <<>>, attempts |-> 2]
     ELSE [ret |-> VNone, ok |-> FALSE, diags |-> <<ParseDiag(response_text)>>,
           attempts |-> 2]


\* ------------------------------------------------- dict and list accessors
IsDict(v) == v.t = "obj"
HasKey(v, key) == \E i \in 1..Len(v.items) : v.items[i].k = key

\* v.get(key, default) on a dict
DictGet(v, key, default) ==
  IF HasKey(v, key)
  THEN v.items[CHOOSE i \in 1..Len(v.items) : v.items[i].k = key].v
  ELSE default

\* `for x in v`: a list gives its elements, a dict its keys, a str its characters;
\* anything else raises TypeError
Iterable(v) == v.t \in {"arr", "obj", "str"}

IterSeq(v) ==
  CASE v.t = "arr" -> [i \in 1..Len(v.items) |-> v.items[i].v]
    [] v.t = "obj" -> [i \in 1..Len(v.items) |-> VStr(v.items[i].k)]
    [] OTHER -> [i \in 1..Len(v.s) |-> VStr(<<v.s[i]>>)]

\* int, float and bool take part in arithmetic
IsNumber(v) == v.t \in {"num", "true", "false"}
NumberOf(v) == IF v.t = "num" THEN v.n ELSE IF v.t = "true" THEN 1 ELSE 0

RECURSIVE DecimalAtoms(_)
DecimalAtoms(k) ==
  LET digit == CHOOSE c \in Digits : DigitVal(c) = k % 10
  IN IF k < 10 THEN <<digit>> ELSE Append(DecimalAtoms(k \div 10), digit)

\* str(v) as an f-string places it
Format(v) ==
  CASE v.t = "str" -> v.s
    [] v.t = "null" -> <<"None">>
    [] v.t = "true" -> <<"True">>
    [] v.t = "false" -> <<"False">>
    [] v.t = "num" -> DecimalAtoms(v.n)
    [] OTHER -> <<"<repr>">>

K_trip_summary == <<"trip_summary">>
K_estimated_total_cost == <<"estimated_total_cost">>
K_itinerary == <<"itinerary">>
K_day == <<"day">>
K_activities == <<"activities">>
K_time == <<"time">>
K_place_name == <<"place_name">>
K_description == <<"description">>
K_estimated_cost == <<"estimated_cost">>
K_address == <<"address_for_geocoding">>

NumColors == 17
DefaultBudget == 300

\* ------------------------------------------------------------ geocode_address
NoCoords == [some |-> FALSE, lat |-> 0, lon |-> 0]
SomeCoords(loc) == [some |-> TRUE, lat |-> loc[1], lon |-> loc[2]]

\* what geolocator.geocode(address, timeout=5) can do
Coords == {<<41, 12>>, <<0, 0>>}
GeoOutcomes ==
  {[kind |-> "found", loc |-> c] : c \in Coords}
    \cup {[kind |-> k, loc |-> <<0, 0>>] :
            k \in {"none", "timeout", "unavailable", "error"}}

\* st.cache_data keeps what the function returned, under its argument; a call
\* that raises leaves nothing behind
CacheStore(c, q, val) == c @@ (q :> val)

\* the exceptions line 27 catches
Caught(kind) == kind \in {"timeout", "unavailable"}

\* geocode_address(q) with the cache c, when the service would answer o
GeocodeAddress(c, q, o) ==
  IF q \in DOMAIN c
  THEN [raised |-> FALSE, ret |-> c[q], cache |-> c, looked |-> FALSE]
  ELSE IF o.kind = "found"
  THEN [raised |-> FALSE, ret |-> SomeCoords(o.loc),
        cache |-> CacheStore(c, q, SomeCoords(o.loc)), looked |-> TRUE]
  ELSE IF o.kind = "none" \/ Caught(o.kind)
  THEN [raised |-> FALSE, ret |-> NoCoords,
        cache |-> CacheStore(c, q, NoCoords), looked |-> TRUE]
  ELSE [raised |-> TRUE, ret |-> NoCoords, cache |-> c, looked |-> TRUE]


\* ------------------------------------------------ what the AI service sends
RECURSIVE Dumps(_)
RECURSIVE DumpsItems(_, _, _)

\* the members items[i..] of a list or a dict, separated by ", "
DumpsItems(items, i, asDict) ==
  IF i > Len(items) THEN <<>>
  ELSE (IF i > 1 THEN <<",", SP>> ELSE <<>>)
       \o (IF asDict THEN <<DQ>> \o items[i].k \o <<DQ, ":", SP>> ELSE <<>>)
       \o Dumps(items[i].v)
       \o DumpsItems(items, i + 1, asDict)

\* the JSON text of a value
Dumps(v) ==
  CASE v.t = "str" -> <<DQ>> \o v.s \o <<DQ>>
    [] v.t = "num" -> DecimalAtoms(v.n)
    [] v.t \in {"null", "true", "false"} -> <<v.t>>
    [] v.t = "arr" -> <<"[">> \o DumpsItems(v.items, 1, FALSE) \o <<"]">>
    [] OTHER -> <<"{">> \o DumpsItems(v.items, 1, TRUE) \o <<"}">>

\* the activity of the prompt's schema (lines 66-72), with the members given
Activity(place, address) ==
  VObj(<<Member(K_time, VStr(<<"Morning">>))>>
       \o place
       \o <<Member(K_description, VStr(<<"cheap">>)),
            Member(K_estimated_cost, VNum(10))>>
       \o address)

ActColosseum ==
  Activity(<<Member(K_place_name, VStr(<<"Colosseum">>))>>,
           <<Member(K_address, VStr(<<"Colosseum", ",", SP, "Rome">>))>>)
ActHiddenCafe ==
  Activity(<<Member(K_place_name, VStr(<<"Hidden", SP, "Cafe">>))>>,
           <<Member(K_address, VStr(<<"???">>))>>)
ActNoAddress ==
  Activity(<<Member(K_place_name, VStr(<<"Colosseum">>))>>, <<>>)
ActBlank ==
  Activity(<<Member(K_place_name, VStr(<<>>))>>, <<Member(K_address, VStr(<<>>))>>)
ActUnnamed == Activity(<<>>, <<>>)

DayPlan(num, acts) ==
  VObj(<<Member(K_day, VNum(num)),
         Member(K_activities, VArr([i \in 1..Len(acts) |-> Elem(acts[i])]))>>)

Itinerary(cost, days) ==
  VObj(<<Member(K_trip_summary, VStr(<<"fun">>)),
         Member(K_estimated_total_cost, cost),
         Member(K_itinerary, VArr([i \in 1..Len(days) |-> Elem(days[i])]))>>)

\* answers that follow the schema
ItineraryDocs ==
  { Itinerary(VNum(150), <<DayPlan(1, <<ActColosseum, ActHiddenCafe>>)>>),
    Itinerary(VNum(350), <<DayPlan(1, <<ActNoAddress>>), DayPlan(2, <<ActBlank>>)>>),
    Itinerary(VNum(150), <<DayPlan(3, <<>>), DayPlan(18, <<ActUnnamed>>)>>) }

\* answers that are JSON and do not follow it
OtherDocs ==
  { VObj(<<>>), VArr(<<>>), VArr(<<Elem(VNum(1))>>), VNum(0), VNone,
    Itinerary(VStr(<<"cheap">>), <<>>),
    Itinerary(VNum(150), <<VObj(<<Member(K_day, VNone)>>)>>),
    VObj(<<Member(K_itinerary, VNum(5))>>) }

FenceOpen == <<BT, BT, BT, "j", "s", "o", "n", NL>>
FenceClose == <<NL, BT, BT, BT>>

\* response.text when the call answers
AITexts ==
  {Dumps(v) : v \in ItineraryDocs \cup OtherDocs}
    \cup {FenceOpen \o Dumps(v) \o FenceClose : v \in ItineraryDocs}
    \cup {<<"Sorry", ",", SP, "no", SP, "plan">>}

\* what generate_itinerary (lines 49 and 79-91) can meet
AIOutcomes ==
  {[kind |-> k, text |-> <<>>] : k \in {"client_error", "api_error", "no_text"}}
    \cup {[kind |-> "text", text |-> t] : t \in AITexts}


\* ------------------------------------------------------------------- state
VARIABLES
  pc,              \* where the script run stands
  runs,            \* submissions so far in this process
  destination,     \* the form's destination
  budget,          \* the form's budget
  itinerary_data,  \* what generate_itinerary returned
  genOutcome,      \* how generate_itinerary ended in this run
  ui,              \* the elements this run has put on the page, in order
  fault,           \* the exception that reached the top level of this run
  cache,           \* st.cache_data of geocode_address: query -> result
  lookups,         \* query -> number of geolocator.geocode calls made for it
  d, a,            \* the day and the activity create_itinerary_map is at
  coords,          \* the local coords of the loop body
  markers,         \* the markers added to the map, in order
  view,            \* the map's viewport
  mapState,        \* none | building | returned | aborted
  actsDone,        \* activities whose loop body has run to its end
  addrHits,        \* activities whose address query gave a coordinate
  issued,          \* the geocode_address calls made for the current activity
  geoCalls,        \* geocode_address calls made in this run
  prevHalted,      \* an earlier run ended without an itinerary
  p_doc,           \* a document handed to parse_gemini_json
  p_wrap,          \* what is put around it: whitespace and fences
  p_text,          \* the document wrapped, handed to parse_gemini_json too
  r_doc, r_text    \* what parse_gemini_json gave for each

reqVars == <<runs, destination, budget>>
geoVars == <<cache, lookups>>
loopVars == <<d, a, coords, issued>>
mapVars == <<markers, view, mapState, actsDone, addrHits>>
parseVars == <<p_doc, p_wrap, p_text, r_doc, r_text>>
vars == <<pc, reqVars, itinerary_data, genOutcome, ui, fault, geoVars, loopVars,
          mapVars, geoCalls, prevHalted, parseVars>>

NoFault == [exc |-> "none", at |-> "none"]
UI(kind, about) == [kind |-> kind, about |-> about, text |-> <<>>]
DefaultView == [center |-> <<0, 0>>, zoom |-> 2, bounds |-> <<>>]
NotParsed == [ret |-> VNone, ok |-> FALSE, diags |-> <<>>, attempts |-> 0]
EmptyMap == [q \in {} |-> NoCoords]
EmptyCount == [q \in {} |-> 0]

Destinations == {<<>>, <<"Rome">>}

\* line 191: 50 to 5000, 300 to begin with
MinBudget == 50
MaxBudget == 5000
Budgets == {MinBudget, DefaultBudget, MaxBudget}

\* ------------------------------------------- texts for parse_gemini_json
SeqsUpTo(S, n) == UNION {[1..k -> S] : k \in 0..n}

DocAlphabet == {"[", "]", "1", ",", DQ, BT}

SampleDocs ==
  { <<"{", "}">>,
    <<"{", DQ, "a", DQ, ":", SP, "1", "}">>,
    <<"{", DQ, "a", DQ, ":", "[", "]", ",", NL, DQ, "a", DQ, ":", "2", "}">>,
    <<"[", "1", ",", SP, "2", "0", "]">>,
    <<SP, "[", NL, "]", NL>>,
    <<DQ, BT, BT, BT, "j", "s", "o", "n", DQ>>,
    <<DQ, SP, "x", SP, DQ>>,
    <<DQ, "x", NL, DQ>>,
    <<"0", "1">>,
    <<"null">>,
    <<"true">>,
    <<"not", SP, "json", SP, "at", SP, "all">>,
    <<"{", DQ, "a", DQ, ":", "}">>,
    <<"[", "]", BT, BT, BT>>,
    <<"j", "s", "o", "n">>,
    <<"[", FF, "]">>,
    Dumps(Itinerary(VNum(150), <<DayPlan(1, <<ActHiddenCafe>>)>>)) }

Docs == SeqsUpTo(DocAlphabet, MaxDocLen) \cup SampleDocs

Ws == {<<>>, <<SP, NL>>}
Fence == <<BT, BT, BT>>
JsonFences == {Fence \o <<"j", "s", "o", "n">>, Fence \o <<"J", "S", "O", "N">>,
               Fence \o <<"J", "s", "o", "n">>}
Wrappers ==
  [pre : Ws, open : {<<>>, Fence} \cup JsonFences, gap1 : Ws \cup {<<FF>>},
   gap2 : Ws, close : {<<>>, Fence}, post : Ws]
NoWrap ==
  [pre |-> <<>>, open |-> <<>>, gap1 |-> <<>>, gap2 |-> <<>>, close |-> <<>>,
   post |-> <<>>]
Wrap(w, doc) == w.pre \o w.open \o w.gap1 \o doc \o w.gap2 \o w.close \o w.post

\* a leading json fence and a trailing fence, whitespace around each
FullFences == {w \in Wrappers : w.open \in JsonFences /\ w.close = Fence}

Init ==
  /\ pc = "idle"
  /\ runs = 0
  /\ destination = <<>>
  /\ budget = DefaultBudget
  /\ itinerary_data = VNone
  /\ genOutcome = "pending"
  /\ ui = <<>>
  /\ fault = NoFault
  /\ cache = EmptyMap
  /\ lookups = EmptyCount
  /\ d = 0 /\ a = 0
  /\ coords = NoCoords
  /\ markers = <<>>
  /\ view = DefaultView
  /\ mapState = "none"
  /\ actsDone = 0
  /\ addrHits = 0
  /\ issued = <<>>
  /\ geoCalls = 0
  /\ prevHalted = FALSE
  /\ p_doc = <<>> /\ p_wrap = NoWrap /\ p_text = <<>>
  /\ r_doc = NotParsed /\ r_text = NotParsed

\* an exception nobody catches ends the script run
Raise(exc, at) ==
  /\ fault' = [exc |-> exc, at |-> at]
  /\ pc' = "done"

\* lines 199-203: the form is submitted and the script runs again from the top
Submit(dest, bud) ==
  /\ pc \in {"idle", "done"}
  /\ runs < MaxRuns
  /\ runs' = runs + 1
  /\ destination' = dest
  /\ budget' = bud
  /\ prevHalted' = (prevHalted \/ genOutcome \in {"api_error", "parse_error"})
  /\ itinerary_data' = VNone
  /\ genOutcome' = "pending"
  /\ fault' = NoFault
  /\ d' = 0 /\ a' = 0
  /\ coords' = NoCoords
  /\ markers' = <<>>
  /\ view' = DefaultView
  /\ mapState' = "none"
  /\ actsDone' = 0
  /\ addrHits' = 0
  /\ issued' = <<>>
  /\ geoCalls' = 0
  /\ IF dest = <<>>
     THEN ui' = <<UI("error", "destination")>> /\ pc' = "done"
     ELSE ui' = <<>> /\ pc' = "generate"
  /\ UNCHANGED <<geoVars, parseVars>>

\* lines 45-91, called at line 205
GenerateItinerary(o) ==
  /\ pc = "generate"
  /\ IF o.kind = "client_error"
     THEN /\ Raise("ValueError", "generate_itinerary")
          /\ genOutcome' = "raised"
          /\ UNCHANGED <<itinerary_data, ui>>
     ELSE IF o.kind \in {"api_error", "no_text"}
     THEN /\ ui' = Append(ui, UI("error", "gemini"))
          /\ itinerary_data' = VNone
          /\ genOutcome' = "api_error"
          /\ pc' = "branch"
          /\ UNCHANGED fault
     ELSE LET r == ParseGeminiJson(o.text)
          IN /\ ui' = ui \o r.diags
             /\ itinerary_data' = r.ret
             /\ genOutcome' = IF r.ok THEN "parsed" ELSE "parse_error"
             /\ pc' = "branch"
             /\ UNCHANGED fault
  /\ UNCHANGED <<reqVars, geoVars, loopVars, mapVars, geoCalls, prevHalted, parseVars>>

\* line 207: `if itinerary_data:`
RenderGuardAlways(data) == TRUE
RenderGuard(data) == Truthy(data)

\* line 207, the branch not taken: the run ends
HaltNoItinerary ==
  /\ pc = "branch"
  /\ ~RenderGuard(itinerary_data)
  /\ pc' = "done"
  /\ UNCHANGED <<reqVars, itinerary_data, genOutcome, ui, fault, geoVars, loopVars,
                 mapVars, geoCalls, prevHalted, parseVars>>

\* lines 208-222: the success message, the overview and the metrics
RenderOverview ==
  /\ pc = "branch"
  /\ RenderGuard(itinerary_data)
  /\ LET est == DictGet(itinerary_data, K_estimated_total_cost, VNum(0))
     IN IF ~IsDict(itinerary_data)
        THEN /\ ui' = ui \o <<UI("success", "itinerary"), UI("subheader", "overview")>>
             /\ Raise("AttributeError", "submit")
        ELSE IF ~IsNumber(est)
        THEN /\ ui' = ui \o <<UI("success", "itinerary"), UI("subheader", "overview"),
                              UI("write", "trip_summary")>>
             /\ Raise("TypeError", "submit")
        ELSE /\ ui' = ui \o <<UI("success", "itinerary"), UI("subheader", "overview"),
                              UI("write", "trip_summary"), UI("metric", "budget"),
                              UI("metric", "cost")>>
                         \o (IF NumberOf(est) > budget
                             THEN <<UI("warning", "budget")>> ELSE <<>>)
             /\ pc' = "download"
             /\ UNCHANGED fault
  /\ UNCHANGED <<reqVars, itinerary_data, genOutcome, geoVars, loopVars, mapVars,
                 geoCalls, prevHalted, parseVars>>

\* the first exception the loops of lines 152-158 meet on a day, or "none"
DayFault(day) ==
  IF ~IsDict(day) THEN "AttributeError"
  ELSE LET acts == DictGet(day, K_activities, VArr(<<>>))
       IN IF ~Iterable(acts) THEN "TypeError"
          ELSE IF \E i \in 1..Len(IterSeq(acts)) : ~IsDict(IterSeq(acts)[i])
          THEN "AttributeError"
          ELSE "none"

\* generate_download_text (lines 144-159): the exception it raises, or "none"
DownloadFault(data) ==
  IF ~IsDict(data) THEN "AttributeError"
  ELSE LET it == DictGet(data, K_itinerary, VArr(<<>>))
       IN IF ~Iterable(it) THEN "TypeError"
          ELSE LET days == IterSeq(it)
                   bad == {i \in 1..Len(days) : DayFault(days[i]) # "none"}
               IN IF bad = {} THEN "none"
                  ELSE DayFault(days[CHOOSE i \in bad : \A j \in bad : i <= j])

\* lines 225-231: the download button
RenderDownload ==
  /\ pc = "download"
  /\ IF DownloadFault(itinerary_data) # "none"
     THEN Raise(DownloadFault(itinerary_data), "generate_download_text") /\ UNCHANGED ui
     ELSE /\ ui' = Append(ui, UI("download", "itinerary"))
          /\ pc' = "map_start"
          /\ UNCHANGED fault
  /\ UNCHANGED <<reqVars, itinerary_data, genOutcome, geoVars, loopVars, mapVars,
                 geoCalls, prevHalted, parseVars>>


\* ------------------------------------------------------ create_itinerary_map
Days(data) == IterSeq(DictGet(data, K_itinerary, VArr(<<>>)))
ActsOf(day) == IterSeq(DictGet(day, K_activities, VArr(<<>>)))
CurDay == Days(itinerary_data)[d]
CurAct == ActsOf(CurDay)[a]

\* line 114 and line 115
AddressOf(act) == DictGet(act, K_address, VNone)
PlaceNameOf(act) == DictGet(act, K_place_name, VStr(<<"Unknown", SP, "Place">>))

\* line 121: f"{place_name}, {destination_city}"
PlaceQuery(place_name, city) == Format(place_name) \o <<",", SP>> \o city

\* the conditions of lines 118, 120 and 122
NeedAddress(address) == Truthy(address)
NeedPlaceAnyway(c, place_name) == Truthy(place_name)
NeedPlace(c, place_name) == ~c.some /\ Truthy(place_name)
NeedCity(c) == ~c.some

\* lines 236-240 and 93-109: the map is created and the loop over the days entered
MapStart ==
  /\ pc = "map_start"
  /\ ui' = ui \o <<UI("subheader", "map"), UI("radio", "theme")>>
  /\ markers' = <<>>
  /\ view' = DefaultView
  /\ actsDone' = 0
  /\ addrHits' = 0
  /\ IF ~IsDict(itinerary_data)
     THEN Raise("AttributeError", "create_itinerary_map") /\ mapState' = "aborted"
          /\ UNCHANGED <<d, a>>
     ELSE IF ~Iterable(DictGet(itinerary_data, K_itinerary, VArr(<<>>)))
     THEN Raise("TypeError", "create_itinerary_map") /\ mapState' = "aborted"
          /\ UNCHANGED <<d, a>>
     ELSE /\ mapState' = "building"
          /\ d' = 1 /\ a' = 0
          /\ pc' = "map_day"
          /\ UNCHANGED fault
  /\ UNCHANGED <<reqVars, itinerary_data, genOutcome, geoVars, coords, issued,
                 geoCalls, prevHalted, parseVars>>

\* lines 109-113: the next day, or the end of the days
MapDay ==
  /\ pc = "map_day"
  /\ IF d > Len(Days(itinerary_data))
     THEN pc' = "map_finish" /\ UNCHANGED <<fault, mapState, a>>
     ELSE IF ~IsDict(CurDay)
     THEN Raise("AttributeError", "create_itinerary_map") /\ mapState' = "aborted"
          /\ UNCHANGED a
     ELSE IF ~IsNumber(DictGet(CurDay, K_day, VNum(1)))
             \/ ~Iterable(DictGet(CurDay, K_activities, VArr(<<>>)))
     THEN Raise("TypeError", "create_itinerary_map") /\ mapState' = "aborted"
          /\ UNCHANGED a
     ELSE a' = 1 /\ pc' = "map_act" /\ UNCHANGED <<fault, mapState>>
  /\ UNCHANGED <<reqVars, itinerary_data, genOutcome, ui, geoVars, d, coords, issued,
                 markers, view, actsDone, addrHits, geoCalls, prevHalted, parseVars>>

\* lines 113-117: the next activity of the day, or the end of the day
MapAct ==
  /\ pc = "map_act"
  /\ IF a > Len(ActsOf(CurDay))
     THEN /\ d' = d + 1 /\ pc' = "map_day"
          /\ UNCHANGED <<fault, mapState, a, coords, issued>>
     ELSE IF ~IsDict(CurAct)
     THEN Raise("AttributeError", "create_itinerary_map") /\ mapState' = "aborted"
          /\ UNCHANGED <<d, a, coords, issued>>
     ELSE /\ coords' = NoCoords
          /\ issued' = <<>>
          /\ pc' = "try_address"
          /\ UNCHANGED <<fault, mapState, d, a>>
  /\ UNCHANGED <<reqVars, itinerary_data, genOutcome, ui, geoVars, markers, view,
                 actsDone, addrHits, geoCalls, prevHalted, parseVars>>

\* one call geocode_address(q) of the chain, the step'th, when the service
\* would answer o; an exception it lets through ends create_itinerary_map too
Geocode(step, q, o, next) ==
  LET r == GeocodeAddress(cache, q, o)
  IN /\ cache' = r.cache
     /\ lookups' = IF ~r.looked THEN lookups
                   ELSE IF q \in DOMAIN lookups
                   THEN [lookups EXCEPT ![q] = @ + 1]
                   ELSE lookups @@ (q :> 1)
     /\ geoCalls' = geoCalls + 1
     /\ issued' = Append(issued, [step |-> step, q |-> q, found |-> r.ret.some,
                                  raised |-> r.raised])
     /\ addrHits' = IF step = 1 /\ r.ret.some THEN addrHits + 1 ELSE addrHits
     /\ IF r.raised
        THEN /\ Raise("GeocoderServiceError", "geocode_address")
             /\ mapState' = "aborted"
             /\ UNCHANGED coords
        ELSE /\ coords' = r.ret
             /\ pc' = next
             /\ UNCHANGED <<fault, mapState>>
     /\ UNCHANGED <<reqVars, itinerary_data, genOutcome, ui, d, a, markers, view,
                    actsDone, prevHalted, parseVars>>

\* a condition of the chain that is false: no call, on to the next line
Skip(next) ==
  /\ pc' = next
  /\ UNCHANGED <<reqVars, itinerary_data, genOutcome, ui, fault, geoVars, loopVars,
                 mapVars, geoCalls, prevHalted, parseVars>>

\* lines 118-119
TryAddress(o) ==
  /\ pc = "try_address"
  /\ NeedAddress(AddressOf(CurAct))
  /\ Geocode(1, Format(AddressOf(CurAct)), o, "try_place")

SkipAddress ==
  /\ pc = "try_address"
  /\ ~NeedAddress(AddressOf(CurAct))
  /\ Skip("try_place")

\* lines 120-121
TryPlace(o) ==
  /\ pc = "try_place"
  /\ NeedPlace(coords, PlaceNameOf(CurAct))
  /\ Geocode(2, PlaceQuery(PlaceNameOf(CurAct), destination), o, "try_city")

SkipPlace ==
  /\ pc = "try_place"
  /\ ~NeedPlace(coords, PlaceNameOf(CurAct))
  /\ Skip("try_city")

\* lines 122-123
TryCity(o) ==
  /\ pc = "try_city"
  /\ NeedCity(coords)
  /\ Geocode(3, destination, o, "mark")

SkipCity ==
  /\ pc = "try_city"
  /\ ~NeedCity(coords)
  /\ Skip("mark")

\* lines 125-135: coordinates_list and the map with the marker of an activity
MarkerListOnce(ms, c, day_num) ==
  IF c.some /\ \A i \in 1..Len(ms) : ms[i].loc # <<c.lat, c.lon>>
  THEN Append(ms, [loc |-> <<c.lat, c.lon>>, color |-> (day_num - 1) % NumColors])
  ELSE ms
MarkerList(ms, c, day_num) ==
  IF c.some
  THEN Append(ms, [loc |-> <<c.lat, c.lon>>, color |-> (day_num - 1) % NumColors])
  ELSE ms

\* lines 125-135 and back to line 113
AddMarker ==
  /\ pc = "mark"
  /\ markers' = MarkerList(markers, coords, NumberOf(DictGet(CurDay, K_day, VNum(1))))
  /\ actsDone' = actsDone + 1
  /\ a' = a + 1
  /\ pc' = "map_act"
  /\ UNCHANGED <<reqVars, itinerary_data, genOutcome, ui, fault, geoVars, d, coords,
                 issued, view, mapState, addrHits, geoCalls, prevHalted, parseVars>>

\* lines 137-140: fit_bounds(coordinates_list), or the warning
FinishMapAlwaysWarn(ms) ==
  [bounds |-> [i \in 1..Len(ms) |-> ms[i].loc], warn |-> TRUE]
FinishMap(ms) ==
  IF ms # <<>>
  THEN [bounds |-> [i \in 1..Len(ms) |-> ms[i].loc], warn |-> FALSE]
  ELSE [bounds |-> <<>>, warn |-> TRUE]

\* lines 137-142 and 241: the map is returned and shown
MapFinish ==
  /\ pc = "map_finish"
  /\ view' = [view EXCEPT !.bounds = FinishMap(markers).bounds]
  /\ ui' = ui \o (IF FinishMap(markers).warn THEN <<UI("warning", "map")>> ELSE <<>>)
              \o <<UI("map", "folium")>>
  /\ mapState' = "returned"
  /\ pc' = "tables"
  /\ UNCHANGED <<reqVars, itinerary_data, genOutcome, fault, geoVars, loopVars, markers,
                 actsDone, addrHits, geoCalls, prevHalted, parseVars>>

\* ------------------------------------------------------------ daily tables
TableColumns == {K_time, K_place_name, K_description, K_estimated_cost}

\* line 253: a column no activity of the day has raises KeyError
MissingColumn(acts) ==
  \E col \in TableColumns : \A i \in 1..Len(acts) : ~HasKey(acts[i], col)

\* lines 247-257 from day i on: what is shown, and the exception that ends it
RECURSIVE DailyTables(_, _)
DailyTables(days, i) ==
  IF i > Len(days) THEN [ui |-> <<>>, exc |-> "none"]
  ELSE LET activities == DictGet(days[i], K_activities, VArr(<<>>))
       IN IF Truthy(activities) /\ MissingColumn(ActsOf(days[i]))
          THEN [ui |-> <<UI("expander", "day")>>, exc |-> "KeyError"]
          ELSE LET rest == DailyTables(days, i + 1)
               IN [ui |-> <<UI("expander", "day"),
                            IF Truthy(activities) THEN UI("dataframe", "day")
                            ELSE UI("write", "no activities")>> \o rest.ui,
                   exc |-> rest.exc]

\* lines 243-257
RenderTables ==
  /\ pc = "tables"
  /\ LET t == DailyTables(Days(itinerary_data), 1)
     IN /\ ui' = ui \o <<UI("subheader", "daily")>> \o t.ui
        /\ IF t.exc # "none"
           THEN Raise(t.exc, "submit")
           ELSE pc' = "done" /\ UNCHANGED fault
  /\ UNCHANGED <<reqVars, itinerary_data, genOutcome, geoVars, loopVars, mapVars,
                 geoCalls, prevHalted, parseVars>>

Next ==
  \/ \E dest \in Destinations, bud \in Budgets : Submit(dest, bud)
  \/ \E o \in AIOutcomes : GenerateItinerary(o)
  \/ HaltNoItinerary
  \/ RenderOverview
  \/ RenderDownload
  \/ MapStart
  \/ MapDay
  \/ MapAct
  \/ \E o \in GeoOutcomes : TryAddress(o)
  \/ SkipAddress
  \/ \E o \in GeoOutcomes : TryPlace(o)
  \/ SkipPlace
  \/ \E o \in GeoOutcomes : TryCity(o)
  \/ SkipCity
  \/ AddMarker
  \/ MapFinish
  \/ RenderTables

Spec == Init /\ [][Next]_vars


\* ------------------------------------- parse_gemini_json on its own
ParseInit ==
  /\ p_doc \in Docs
  /\ p_wrap \in Wrappers
  /\ p_text = Wrap(p_wrap, p_doc)
  /\ r_doc = NotParsed /\ r_text = NotParsed
  /\ pc = "idle"
  /\ runs = 0
  /\ destination = <<>>
  /\ budget = DefaultBudget
  /\ itinerary_data = VNone
  /\ genOutcome = "pending"
  /\ ui = <<>>
  /\ fault = NoFault
  /\ cache = EmptyMap
  /\ lookups = EmptyCount
  /\ d = 0 /\ a = 0
  /\ coords = NoCoords
  /\ markers = <<>>
  /\ view = DefaultView
  /\ mapState = "none"
  /\ actsDone = 0
  /\ addrHits = 0
  /\ issued = <<>>
  /\ geoCalls = 0
  /\ prevHalted = FALSE

appVars == <<pc, reqVars, itinerary_data, genOutcome, ui, fault, geoVars, loopVars,
             mapVars, geoCalls, prevHalted>>

\* parse_gemini_json(p_doc)
ParseDoc ==
  /\ r_doc.attempts = 0
  /\ r_doc' = ParseGeminiJson(p_doc)
  /\ UNCHANGED <<p_doc, p_wrap, p_text, r_text, appVars>>

\* parse_gemini_json(p_text)
ParseText ==
  /\ r_text.attempts = 0
  /\ r_text' = ParseGeminiJson(p_text)
  /\ UNCHANGED <<p_doc, p_wrap, p_text, r_doc, appVars>>

ParseNext == ParseDoc \/ ParseText

ParseSpec == ParseInit /\ [][ParseNext]_vars


\* ---------------------------------------------------------------- properties
RECURSIVE CountUI(_, _, _)
CountUI(log, kind, about) ==
  IF log = <<>> THEN 0
  ELSE (IF Head(log).kind = kind /\ Head(log).about = about THEN 1 ELSE 0)
       + CountUI(Tail(log), kind, about)

HasError(log) == \E i \in 1..Len(log) : log[i].kind = "error"

RECURSIVE SumActs(_, _)
SumActs(days, i) ==
  IF i > Len(days) THEN 0 ELSE Len(ActsOf(days[i])) + SumActs(days, i + 1)

\* the number of activities of all the days of an itinerary
TotalActs(data) == SumActs(Days(data), 1)

InChain ==
  \/ pc \in {"try_address", "try_place", "try_city", "mark"}
  \/ (pc = "done" /\ fault.at = "geocode_address")

StepIssued(k) == \E i \in 1..Len(issued) : issued[i].step = k

\* the text of query k of the chain for the current activity
ChainQuery(k) ==
  CASE k = 1 -> Format(AddressOf(CurAct))
    [] k = 2 -> PlaceQuery(PlaceNameOf(CurAct), destination)
    [] OTHER -> destination

RenderedInFull ==
  /\ pc = "done"
  /\ fault = NoFault
  /\ mapState = "returned"
  /\ CountUI(ui, "success", "itinerary") = 1
  /\ CountUI(ui, "map", "folium") = 1
  /\ CountUI(ui, "subheader", "daily") = 1

\* C1: generate_itinerary ends by returning: a parsed itinerary, or None with an
\* error message on the page.  No exception leaves it, whatever the AI service
\* does, the construction of its client included.
C1_GenerateNeverRaises ==
  /\ genOutcome # "raised"
  /\ fault.at # "generate_itinerary"
  /\ (genOutcome \in {"api_error", "parse_error"}
        => itinerary_data = VNone /\ HasError(ui))

\* C2: the geocoding service is called at most once for each distinct query text
\* over the life of the process.
C2_OneLookupPerQuery == \A q \in DOMAIN lookups : lookups[q] <= 1

\* C3 as stated: every activity's queries go 1, 2, 3: query k+1 is issued only
\* when query k was issued and returned absent, and nothing follows a success.
C3_EveryQueryFollowsItsPredecessor ==
  InChain =>
    \A i \in 1..Len(issued) :
      /\ issued[i].q = ChainQuery(issued[i].step)
      /\ issued[i].step > 1 =>
           \E j \in 1..(i - 1) :
             /\ issued[j].step = issued[i].step - 1
             /\ ~issued[j].found /\ ~issued[j].raised

\* C3 as amended: the queries of an activity are issued in the order address,
\* "place_name, city", city, each with its own text; query 1 is left out only
\* when the address is missing or empty and query 2 only when the place name is
\* empty or an earlier query succeeded; a query is issued only when every query
\* issued before it returned absent, and an activity whose queries all returned
\* absent has had the city query.
C3_ChainOrder ==
  InChain =>
    /\ \A i \in 1..Len(issued) :
         /\ issued[i].q = ChainQuery(issued[i].step)
         /\ \A j \in 1..(i - 1) :
              /\ issued[j].step < issued[i].step
              /\ ~issued[j].found /\ ~issued[j].raised
         /\ \A k \in 1..(issued[i].step - 1) :
              \/ StepIssued(k)
              \/ (k = 1 /\ ~Truthy(AddressOf(CurAct)))
              \/ (k = 2 /\ ~Truthy(PlaceNameOf(CurAct)))
    /\ pc = "mark" =>
         /\ coords.some = (issued # <<>> /\ issued[Len(issued)].found)
         /\ ~coords.some => StepIssued(3)
         /\ ~StepIssued(1) => ~Truthy(AddressOf(CurAct))

\* the scenario of the claim: "???" fails, "Hidden Cafe, Rome" fails, "Rome" is asked
C3_Witness ==
  /\ pc = "mark"
  /\ Len(issued) = 3
  /\ issued[1].q = <<"???">>
  /\ issued[2].q = <<"Hidden", SP, "Cafe", ",", SP, "Rome">>
  /\ issued[3].q = <<"Rome">>

\* C4: no outcome of a geocoding call aborts create_itinerary_map: no exception
\* of the geocoding service reaches the top level, and a map that is returned
\* has had every activity of every day processed.
C4_GeocodeFailureNeverAborts ==
  /\ fault.at # "geocode_address"
  /\ ~(mapState = "aborted" /\ geoCalls > 0 /\ issued # <<>> /\ issued[Len(issued)].raised)
  /\ (mapState = "returned" => actsDone = TotalActs(itinerary_data))

\* C5: while create_itinerary_map runs and after it, there are at most as many
\* markers as activities processed, and when it returns after every activity's
\* address_for_geocoding resolved there are as many markers as activities.
C5_MarkerCount ==
  mapState \in {"building", "returned", "aborted"} /\ IsDict(itinerary_data) =>
    /\ Len(markers) <= actsDone
    /\ actsDone <= TotalActs(itinerary_data)
    /\ (mapState = "returned" /\ addrHits = TotalActs(itinerary_data)
          => Len(markers) = TotalActs(itinerary_data))

C5_Witness ==
  /\ mapState = "returned"
  /\ TotalActs(itinerary_data) = 2
  /\ addrHits = 2
  /\ Len(markers) = 2

\* C6: for a valid JSON document, parse_gemini_json of the document inside a
\* leading json fence and a trailing fence (any case, whitespace around them)
\* returns what parse_gemini_json of the document returns, and neither call
\* reports anything.
C6_FenceStripping ==
  (r_doc.attempts > 0 /\ r_text.attempts > 0
     /\ JsonLoads(p_doc).ok /\ p_wrap \in FullFences)
    => /\ r_doc.ok /\ r_text.ok
       /\ r_text.ret = r_doc.ret
       /\ r_doc.diags = <<>> /\ r_text.diags = <<>>

C6_Witness ==
  /\ r_doc.attempts = 1 /\ r_text.attempts = 2
  /\ p_wrap \in FullFences
  /\ p_wrap.open = Fence \o <<"J", "S", "O", "N">>
  /\ p_wrap.pre # <<>> /\ p_wrap.gap2 # <<>>
  /\ r_text.ok
  /\ r_text.ret.t = "obj" /\ r_text.ret.items # <<>>

\* C7: parse_gemini_json parses at most twice, the second time only when the
\* strict parse failed; when both fail it returns None and reports once, with the
\* raw text; when one succeeds it reports nothing.
C7_ParseAttempts ==
  r_text.attempts > 0 =>
    LET strict == JsonLoads(p_text).ok
        stripped == JsonLoads(FenceSub(Strip(p_text))).ok
    IN /\ r_text.attempts \in {1, 2}
       /\ (r_text.attempts = 2) = ~strict
       /\ r_text.ok = (strict \/ stripped)
       /\ r_text.ok => r_text.diags = <<>>
       /\ ~r_text.ok =>
            /\ r_text.ret = VNone
            /\ r_text.diags = <<[kind |-> "error", about |-> "parse", text |-> p_text]>>

C7_Witness ==
  /\ r_text.attempts = 2
  /\ ~r_text.ok
  /\ Len(r_text.diags) = 1
  /\ p_text = <<"not", SP, "json", SP, "at", SP, "all">>

\* C8: a run in which the AI call failed, or its text was not JSON after both
\* attempts, shows the error and stops: no geocoding call, no map, nothing of
\* an itinerary on the page, no exception; and the process takes the next
\* submission.
C8_NoItineraryHalts ==
  genOutcome \in {"api_error", "parse_error"} =>
    /\ pc \in {"branch", "done"}
    /\ fault = NoFault
    /\ geoCalls = 0
    /\ mapState = "none" /\ markers = <<>>
    /\ Len(ui) = 1 /\ ui[1].kind = "error"
    /\ (pc = "done" /\ runs < MaxRuns => ENABLED Submit(<<"Rome">>, DefaultBudget))

\* a run that halted, and a later run of the same process rendered in full
C8_Witness ==
  /\ prevHalted
  /\ RenderedInFull
  /\ Len(markers) >= 1

\* C9: while the activities are processed nothing is warned and the viewport is
\* the default; once they all are, either there are markers, the viewport bounds
\* them all and nothing is warned, or there is no marker, the viewport is the
\* default and there is exactly one warning.
C9_FitOrWarn ==
  /\ mapState \in {"none", "building", "aborted"} =>
       CountUI(ui, "warning", "map") = 0 /\ view = DefaultView
  /\ mapState = "returned" =>
       \/ /\ markers # <<>>
          /\ view.bounds = [i \in 1..Len(markers) |-> markers[i].loc]
          /\ CountUI(ui, "warning", "map") = 0
       \/ /\ markers = <<>>
          /\ view = DefaultView
          /\ CountUI(ui, "warning", "map") = 1

\* activities that could not be resolved, and the one warning for all of them
C9_Witness ==
  /\ mapState = "returned"
  /\ actsDone = 2
  /\ markers = <<>>
  /\ CountUI(ui, "warning", "map") = 1

\* C10: a run with a destination, whatever the AI service answered, ends with
\* the itinerary rendered in full or with an error message on the page, one of
\* the two, and with no exception.
C10_ErrorOrFullRender ==
  pc = "done" /\ destination # <<>> /\ genOutcome \in {"api_error", "parse_error", "parsed"} =>
    /\ fault = NoFault
    /\ RenderedInFull # HasError(ui)

=============================================================================
